---------------------------- MODULE Spec2Model ----------------------------
(***************************************************************************)
(* Model of the webhook sync/reconciliation engine:                        *)
(*   JiraWebhookHandler.handleWebhook  -> JiraIntegrationService.syncIssue *)
(*   GithubWebhookHandler.handleEvent  -> GithubIntegrationService         *)
(*                                                                         *)
(* Every handler is an async function.  A handler runs synchronously up to *)
(* its next `await`, then yields; deliveries are therefore interleaved at  *)
(* the await points, and one action models one synchronous run.            *)
(*                                                                         *)
(* The persistence calls of the source are log lines                       *)
(* ("[DB] PERSIST: ...").  dbLog and prLog are those lines, in order; the  *)
(* persisted state is what the lines say was written last.                 *)
(***************************************************************************)
EXTENDS Integers, Sequences, FiniteSets, TLC

(***************************************************************************)
(* Bounds of the model.                                                    *)
(***************************************************************************)
\* number of webhook deliveries
MaxCalls == 2
\* number of runs of the retry worker
MaxRetryRuns == 2
\* Math.random() * 1000 is drawn from 0 .. MaxEntityId - 1 here
MaxEntityId == 2
\* Math.random() * 5 + 1 is drawn from 1 .. MaxReviewCycles here
MaxReviewCycles == 1

\* the deliveries, and the runs of the retry worker
Calls == 1..MaxCalls

RetryRuns == (MaxCalls + 1)..(MaxCalls + MaxRetryRuns)

(***************************************************************************)
(* JavaScript values.                                                      *)
(***************************************************************************)
\* a header or argument that was not supplied
Undefined == "<undefined>"

\* !!v for the string-or-undefined values a signature can take
ToBoolean(v) == v # Undefined /\ v # ""

(***************************************************************************)
(* Inputs: request bodies.  A body is the parsed JSON object; a property   *)
(* that is missing from the object is missing from the record's DOMAIN.    *)
(***************************************************************************)
IssueKeys == {"PROJ-1", "PROJ-2"}

JiraEvents == {"jira:issue_updated", "jira:issue_deleted"}

\* status labels: the four keys of the table, unmapped vocabulary, the
\* empty string, and a name every object inherits from Object.prototype
StatusLabels ==
    {"To Do", "In Progress", "Done", "Closed", "Blocked", "", "constructor"}

\* well-formed issue events
JiraIssueBodies ==
    { [webhookEvent |-> e,
       issue |-> [key |-> k, fields |-> [status |-> [name |-> l]]]]
        : e \in JiraEvents, k \in IssueKeys, l \in StatusLabels }

\* an issue without `fields`: issue.fields.status throws a TypeError
JiraNoFieldsBodies ==
    { [webhookEvent |-> "jira:issue_updated", issue |-> [key |-> k]]
        : k \in IssueKeys }

\* an event that carries no issue at all: issue.key throws a TypeError
JiraNoIssueBodies == { [webhookEvent |-> "sprint_started"] }

JiraBodies == JiraIssueBodies \cup JiraNoFieldsBodies \cup JiraNoIssueBodies

GithubEvents == {"pull_request", "push", "issues"}

\* timestamps are minutes since the epoch
CreatedAts == {60}

MergedAts == {60, 67, 390}

Repository == [full_name |-> "acme/shiplog"]

GithubMergedBodies ==
    { [repository |-> Repository,
       pull_request |-> [number |-> 7, user |-> [login |-> "dev"],
                         created_at |-> t, merged_at |-> m]]
        : t \in CreatedAts, m \in MergedAts }

GithubOpenBodies ==
    { [repository |-> Repository,
       pull_request |-> [number |-> 7, user |-> [login |-> "dev"],
                         created_at |-> t]]
        : t \in CreatedAts }

\* a pull request without `user`: pr.user.login throws a TypeError
GithubNoUserBodies ==
    { [repository |-> Repository,
       pull_request |-> [number |-> 7, created_at |-> t]]
        : t \in CreatedAts }

GithubNoPrBodies == { [repository |-> Repository] }

GithubBodies ==
    GithubMergedBodies \cup GithubOpenBodies \cup GithubNoUserBodies
        \cup GithubNoPrBodies

(***************************************************************************)
(* Signatures.  The secret and the HMAC are those of the verifier's        *)
(* contract; the handlers of the source never compute either.              *)
(***************************************************************************)
AppSecret == "app-secret"

\* the hex HMAC-SHA256 of the raw body under the secret, as a symbolic term
HmacSha256(secret, body) == "sha256=" \o secret \o "/" \o ToString(body)

\* what a sender may put in the signature header of a delivery of `body`
Signatures(body) ==
    {Undefined, "", "sha256=forged", HmacSha256(AppSecret, body)}


(***************************************************************************)
(* Signature verifiers.                                                    *)
(***************************************************************************)
\* a verifier that only checks that the header was sent
isValidSignature_HeaderPresent(sig) == sig # Undefined

\* JiraWebhookHandler.isValidSignature: return !!sig
isValidSignature(sig) == ToBoolean(sig)

\* GithubWebhookHandler.verifySignature: return !!sig (payload is unused)
verifySignature(sig, payload) == ToBoolean(sig)

(***************************************************************************)
(* Status normalizer.                                                      *)
(***************************************************************************)
\* the own properties of the statusMap object literal
statusMap ==
    [l \in {"To Do", "In Progress", "Done", "Closed"} |->
        CASE l = "To Do" -> "BACKLOG"
          [] l = "In Progress" -> "ACTIVE"
          [] l = "Done" -> "RELEASED"
          [] l = "Closed" -> "RELEASED"]

\* statusMap is a plain object: a property it does not own is looked up on
\* Object.prototype.  The values there are functions (objects for
\* __proto__); each is written as the text `${value}` renders it to.
ObjectPrototype ==
    [p \in {"constructor", "toString", "valueOf", "hasOwnProperty",
            "__proto__"} |->
        CASE p = "constructor" -> "function Object() { [native code] }"
          [] p = "toString" -> "function toString() { [native code] }"
          [] p = "valueOf" -> "function valueOf() { [native code] }"
          [] p = "hasOwnProperty" ->
                "function hasOwnProperty() { [native code] }"
          [] p = "__proto__" -> "[object Object]"]

\* statusMap[status]
StatusMapGet(status) ==
    IF status \in DOMAIN statusMap THEN statusMap[status]
    ELSE IF status \in DOMAIN ObjectPrototype THEN ObjectPrototype[status]
    ELSE Undefined

\* a table that lacks the 'Closed' entry
mapJiraStatusToInternal_NoClosed(status) ==
    IF status \in {"To Do", "In Progress", "Done"} THEN statusMap[status]
    ELSE "UNKNOWN"

\* return statusMap[status] || 'UNKNOWN'
mapJiraStatusToInternal(status) ==
    IF ToBoolean(StatusMapGet(status)) THEN StatusMapGet(status)
    ELSE "UNKNOWN"

(***************************************************************************)
(* Entity resolver.                                                        *)
(***************************************************************************)
\* `SHIP-${n}`
ShipId(n) == "SHIP-" \o ToString(n)

\* the values Math.floor(Math.random() * 1000) can take, within the bound
RandomEntityNumbers == 0..(MaxEntityId - 1)

\* resolveInternalEntity(jiraKey): the ids one call may return; the key is
\* not used
resolveInternalEntity(jiraKey) == { ShipId(n) : n \in RandomEntityNumbers }

(***************************************************************************)
(* Pull-request metrics.                                                   *)
(***************************************************************************)
\* truncation in place of rounding
MathRound_Floor(num, den) == num \div den

\* Math.round(x) for x = num / den, den > 0: the nearest integer, a half
\* rounded up
MathRound(num, den) == (2 * num + den) \div (2 * den)

\* no test of merged_at: a missing merged_at is read as time 0
timeToMergeHours_NoGuard(pr) ==
    LET merged_at == IF "merged_at" \in DOMAIN pr THEN pr.merged_at ELSE 0
    IN  MathRound((merged_at - pr.created_at) * 100, 60)

\* Math.round(timeToMerge * 100) / 100 with
\* timeToMerge = (mergedAt - createdAt) / one hour, or 0 when not merged.
\* Timestamps are in minutes; the result is in hundredths of an hour.
timeToMergeHours(pr) ==
    IF "merged_at" \in DOMAIN pr
    THEN MathRound((pr.merged_at - pr.created_at) * 100, 60)
    ELSE 0

\* the values Math.floor(Math.random() * 5) + 1 can take, within the bound
fetchReviewCycles(prNumber) == 1..MaxReviewCycles

(***************************************************************************)
(* State.                                                                  *)
(***************************************************************************)
VARIABLES
    \* one record per handler invocation (see IdleCall)
    calls,
    \* JiraIntegrationService.retryQueue: the queued closures, each
    \* () => this.syncIssue(payload), written as its payload
    retryQueue,
    \* the "[DB] PERSIST: Entity ${id} updated to ${status}" lines
    dbLog,
    \* the "[DB] PERSIST: PR #${number} metadata stored" lines
    prLog

vars == <<calls, retryQueue, dbLog, prLog>>

NoPayload == [unbound |-> TRUE]

NoId == ""

\* An invocation that has not started.  pc is the await the invocation is
\* suspended at; nSync .. nMonitor count what the invocation has done;
\* wrote and saved are the positions in dbLog and prLog of the line it wrote
\* (0: none), and queued is the closure it pushed on retryQueue.
IdleCall ==
    [pc |-> "idle", intake |-> "none", sig |-> Undefined,
     eventType |-> Undefined, payload |-> NoPayload, internalId |-> NoId,
     normalizedStatus |-> Undefined, reviewCycles |-> 0,
     result |-> "none", response |-> "none",
     nSync |-> 0, nPersist |-> 0, wrote |-> 0,
     nEnqueue |-> 0, queued |-> NoPayload, nTrack |-> 0,
     nFetch |-> 0, nSave |-> 0, saved |-> 0, nMonitor |-> 0]

Init ==
    /\ calls = [c \in Calls \cup RetryRuns |-> IdleCall]
    /\ retryQueue = <<>>
    /\ dbLog = <<>>
    /\ prLog = <<>>

\* deliveries start in the order of their numbers, and so do retry runs
CanStart(c) ==
    /\ calls[c].pc = "idle"
    /\ c - 1 \in Calls => calls[c - 1].pc # "idle"
    /\ c - 1 \in RetryRuns => calls[c - 1].pc # "idle"

\* where an invocation goes when its syncIssue promise settles: back into
\* handleWebhook, or nowhere (a retry closure has no caller awaiting it)
AfterSync(call) == IF call.intake = "jira" THEN "awaitSync" ELSE "done"

(***************************************************************************)
(* JiraIntegrationService.syncIssue                                        *)
(***************************************************************************)
\* syncIssue(payload) up to its first await, for the invocation `call` of
\* slot c.  issue.key is read for the log line before the try block: a
\* payload without issue rejects the promise.  Otherwise
\* resolveInternalEntity runs (it draws the id) and syncIssue suspends on
\* its promise.
SyncIssueEnter(c, call, payload) ==
    IF "issue" \notin DOMAIN payload
    THEN calls' = [calls EXCEPT ![c] =
            [call EXCEPT !.payload = payload, !.nSync = @ + 1,
                         !.result = "THROWN", !.pc = AfterSync(call)]]
    ELSE \E id \in resolveInternalEntity(payload.issue.key) :
            calls' = [calls EXCEPT ![c] =
                [call EXCEPT !.payload = payload, !.nSync = @ + 1,
                             !.internalId = id, !.pc = "awaitResolve"]]

\* queueForRetry(payload)
queueForRetry(queue, payload) == Append(queue, payload)

\* persistUpdate(id, status)
persistUpdate(log, id, status) == Append(log, [id |-> id, status |-> status])

\* syncIssue from the resolved id to its next await or its return: normalize
\* and persist, or, when issue.fields.status.name throws, the catch block.
SyncIssueAfterResolve(c) ==
    LET call == calls[c]
        issue == call.payload.issue
        normalizedStatus ==
            mapJiraStatusToInternal(issue.fields.status.name)
    IN  /\ call.pc = "awaitResolve"
        /\ IF "fields" \in DOMAIN issue
           THEN /\ dbLog' = persistUpdate(dbLog, call.internalId,
                                          normalizedStatus)
                /\ calls' = [calls EXCEPT
                        ![c].pc = "awaitPersist",
                        ![c].normalizedStatus = normalizedStatus,
                        ![c].nPersist = @ + 1,
                        ![c].wrote = Len(dbLog) + 1]
                /\ UNCHANGED retryQueue
           ELSE /\ retryQueue' = queueForRetry(retryQueue, call.payload)
                /\ calls' = [calls EXCEPT ![c].pc = AfterSync(call),
                                          ![c].result = "RETRY_QUEUED",
                                          ![c].nEnqueue = @ + 1,
                                          ![c].queued =
                                            retryQueue'[Len(retryQueue')]]
                /\ UNCHANGED dbLog
        /\ UNCHANGED prLog

\* syncIssue after persistUpdate: return { status: 'SUCCESS', ... }
SyncIssueAfterPersist(c) ==
    /\ calls[c].pc = "awaitPersist"
    /\ calls' = [calls EXCEPT ![c].pc = AfterSync(calls[c]),
                              ![c].result = "SUCCESS"]
    /\ UNCHANGED <<retryQueue, dbLog, prLog>>

(***************************************************************************)
(* JiraWebhookHandler.handleWebhook                                        *)
(***************************************************************************)
\* handleWebhook up to its await of syncIssue
JiraHandleWebhook(c) ==
    /\ CanStart(c)
    /\ \E body \in JiraBodies :
       \E signature \in Signatures(body) :
          LET call == [calls[c] EXCEPT !.intake = "jira", !.sig = signature]
          IN  IF ~isValidSignature(signature)
              THEN calls' = [calls EXCEPT ![c] =
                        [call EXCEPT !.response = "401", !.pc = "done"]]
              ELSE SyncIssueEnter(c, call, body)
    /\ UNCHANGED <<retryQueue, dbLog, prLog>>

\* handleWebhook after syncIssue settled
JiraRespond(c) ==
    /\ calls[c].pc = "awaitSync"
    /\ calls' = [calls EXCEPT
            ![c].pc = "done",
            ![c].response =
                CASE calls[c].result = "SUCCESS" -> "200"
                  [] calls[c].result = "THROWN" -> "TypeError"
                  [] OTHER -> "202"]
    /\ UNCHANGED <<retryQueue, dbLog, prLog>>

(***************************************************************************)
(* Retry worker.  The source only pushes closures on retryQueue; nothing   *)
(* in it takes them off.  The worker is the background consumer the        *)
(* comment of queueForRetry names: it takes the oldest closure off the     *)
(* queue and calls it.                                                     *)
(***************************************************************************)
RetryWorker(c) ==
    /\ CanStart(c)
    /\ retryQueue # <<>>
    /\ retryQueue' = Tail(retryQueue)
    /\ SyncIssueEnter(c, [calls[c] EXCEPT !.intake = "retry"],
                      Head(retryQueue))
    /\ UNCHANGED <<dbLog, prLog>>

(***************************************************************************)
(* GithubIntegrationService                                                *)
(***************************************************************************)
\* the GithubPRMetadata object trackPullRequest builds
PRMetadata(pr, cycles) ==
    [number |-> pr.number, author |-> pr.user.login,
     reviewCycles |-> cycles, createdAt |-> pr.created_at,
     mergedAt |-> IF "merged_at" \in DOMAIN pr THEN pr.merged_at ELSE -1,
     timeToMergeHours |-> timeToMergeHours(pr)]

\* savePRMetadata(meta)
savePRMetadata(log, meta) == Append(log, meta)

\* trackPullRequest(payload) up to its first await or its return: null
\* without a pull request; a TypeError from pr.user.login while the
\* metadata literal is evaluated; otherwise fetchReviewCycles runs (it
\* draws the count) and trackPullRequest suspends on its promise.
TrackPullRequestEnter(c, call, payload) ==
    IF "pull_request" \notin DOMAIN payload
    THEN calls' = [calls EXCEPT ![c] =
            [call EXCEPT !.nTrack = @ + 1, !.result = "null",
                         !.pc = "awaitRoute"]]
    ELSE IF "user" \notin DOMAIN payload.pull_request
    THEN calls' = [calls EXCEPT ![c] =
            [call EXCEPT !.nTrack = @ + 1, !.result = "THROWN",
                         !.pc = "awaitRoute"]]
    ELSE \E cycles \in fetchReviewCycles(payload.pull_request.number) :
            calls' = [calls EXCEPT ![c] =
                [call EXCEPT !.nTrack = @ + 1, !.nFetch = @ + 1,
                             !.reviewCycles = cycles,
                             !.pc = "awaitReview"]]

\* trackPullRequest from the review-cycle count to its next await:
\* the metadata is built and savePRMetadata is called
TrackAfterReview(c) ==
    LET call == calls[c]
    IN  /\ call.pc = "awaitReview"
        /\ prLog' = savePRMetadata(prLog,
                PRMetadata(call.payload.pull_request, call.reviewCycles))
        /\ calls' = [calls EXCEPT ![c].pc = "awaitSave",
                                  ![c].nSave = @ + 1,
                                  ![c].saved = Len(prLog) + 1]
        /\ UNCHANGED <<retryQueue, dbLog>>

\* trackPullRequest after savePRMetadata: return metadata
TrackAfterSave(c) ==
    /\ calls[c].pc = "awaitSave"
    /\ calls' = [calls EXCEPT ![c].pc = "awaitRoute",
                              ![c].result = "metadata"]
    /\ UNCHANGED <<retryQueue, dbLog, prLog>>

\* a push handed to trackPullRequest
MonitorCommitsEnter_AsTrack(c, call, payload) ==
    TrackPullRequestEnter(c, call, payload)

\* monitorCommits(payload): logs each commit and returns; it has no await
MonitorCommitsEnter(c, call, payload) ==
    calls' = [calls EXCEPT ![c] =
        [call EXCEPT !.nMonitor = @ + 1, !.result = "void",
                     !.pc = "awaitRoute"]]

(***************************************************************************)
(* GithubWebhookHandler.handleEvent                                        *)
(***************************************************************************)
\* handleEvent up to its await of the routed service call; an event type
\* that is not routed returns at once
GithubHandleEvent(c) ==
    /\ CanStart(c)
    /\ \E eventType \in GithubEvents :
       \E body \in GithubBodies :
       \E signature \in Signatures(body) :
          LET call == [calls[c] EXCEPT !.intake = "github",
                            !.sig = signature, !.eventType = eventType]
              routed == [call EXCEPT !.payload = body]
          IN  IF ~verifySignature(signature, body)
              THEN calls' = [calls EXCEPT ![c] =
                        [call EXCEPT !.response = "UNAUTHORIZED",
                                     !.pc = "done"]]
              ELSE CASE eventType = "pull_request" ->
                            TrackPullRequestEnter(c, routed, body)
                     [] eventType = "push" ->
                            MonitorCommitsEnter(c, routed, body)
                     [] OTHER ->
                            calls' = [calls EXCEPT ![c] =
                                [routed EXCEPT !.response = "ACCEPTED",
                                               !.pc = "done"]]
    /\ UNCHANGED <<retryQueue, dbLog, prLog>>

\* handleEvent after the routed service call settled
GithubRespond(c) ==
    /\ calls[c].pc = "awaitRoute"
    /\ calls' = [calls EXCEPT
            ![c].pc = "done",
            ![c].response = IF calls[c].result = "THROWN"
                            THEN "TypeError" ELSE "ACCEPTED"]
    /\ UNCHANGED <<retryQueue, dbLog, prLog>>

(***************************************************************************)
(* Specification.                                                          *)
(***************************************************************************)
Next ==
    \/ \E c \in Calls :
            \/ JiraHandleWebhook(c)
            \/ JiraRespond(c)
            \/ GithubHandleEvent(c)
            \/ TrackAfterReview(c)
            \/ TrackAfterSave(c)
            \/ GithubRespond(c)
    \/ \E c \in RetryRuns : RetryWorker(c)
    \/ \E c \in Calls \cup RetryRuns :
            \/ SyncIssueAfterResolve(c)
            \/ SyncIssueAfterPersist(c)

Spec == Init /\ [][Next]_vars

(***************************************************************************)
(* Vocabulary of the properties.                                           *)
(***************************************************************************)
Invocations == Calls \cup RetryRuns

Started(c) == calls[c].pc # "idle"

Finished(c) == calls[c].pc = "done"

\* the invocation passed the signature check: its body was bound to payload
Processed(c) == calls[c].payload # NoPayload

\* every delivery processed so far carried the HMAC of its body, so that
\* what follows does not rest on a forged signature having been accepted
AllAuthentic ==
    \A c \in Calls :
        Processed(c) =>
            calls[c].sig = HmacSha256(AppSecret, calls[c].payload)

\* the invocation's syncIssue call has settled
SyncSettled(c) ==
    calls[c].nSync > 0 /\ calls[c].pc \in {"awaitSync", "done"}

\* the invocation's syncIssue call has an issue key
HasIssue(c) == Processed(c) /\ "issue" \in DOMAIN calls[c].payload

\* resolveInternalEntity has returned an id to the invocation
Resolved(c) == calls[c].internalId # NoId

\* the invocation performed no persistence write and no retry enqueue
NoWriteNoEnqueue(c) ==
    calls[c].nPersist = 0 /\ calls[c].nSave = 0 /\ calls[c].nEnqueue = 0

KnownStatuses == {"BACKLOG", "ACTIVE", "RELEASED"}

(***************************************************************************)
(* C1.  A delivery whose signature does not verify (the header is missing  *)
(* or empty) is answered 401 on the Jira intake and UNAUTHORIZED on the    *)
(* GitHub intake, at once; it never invokes the sync engine or a GitHub    *)
(* service method, writes nothing and enqueues no retry.                   *)
(***************************************************************************)
C1_InvalidSignatureRejected ==
    \A c \in Calls :
        (Started(c) /\ ~ToBoolean(calls[c].sig)) =>
            /\ Finished(c)
            /\ calls[c].response =
                    IF calls[c].intake = "jira" THEN "401" ELSE "UNAUTHORIZED"
            /\ ~Processed(c)
            /\ calls[c].nSync = 0
            /\ calls[c].nTrack = 0 /\ calls[c].nMonitor = 0
            /\ NoWriteNoEnqueue(c)

\* both intakes have rejected a delivery
C1_Witness ==
    /\ \E c \in Calls :
          calls[c].intake = "jira" /\ ~ToBoolean(calls[c].sig)
             /\ calls[c].response = "401"
    /\ \E c \in Calls :
          calls[c].intake = "github" /\ ~ToBoolean(calls[c].sig)
             /\ calls[c].response = "UNAUTHORIZED"

(***************************************************************************)
(* C2.  A delivery is processed only when its signature equals the HMAC of *)
(* its body under the shared secret.                                       *)
(***************************************************************************)
C2_ProcessedOnlyIfHmacMatches ==
    \A c \in Calls :
        Processed(c) =>
            calls[c].sig = HmacSha256(AppSecret, calls[c].payload)

(***************************************************************************)
(* C3.  A settled syncIssue call ended either in SUCCESS with at most one  *)
(* persistence write and no retry enqueue, or in RETRY_QUEUED with exactly *)
(* one retry enqueue and no persistence write.                             *)
(***************************************************************************)
C3_SuccessXorRetryQueued ==
    AllAuthentic =>
        \A c \in Invocations :
            SyncSettled(c) =>
                \/ /\ calls[c].result = "SUCCESS"
                   /\ calls[c].nPersist <= 1
                   /\ calls[c].nEnqueue = 0
                \/ /\ calls[c].result = "RETRY_QUEUED"
                   /\ calls[c].nEnqueue = 1
                   /\ calls[c].nPersist = 0

(***************************************************************************)
(* C4.  Any two resolutions of the same issue key returned the same        *)
(* internal id.                                                            *)
(***************************************************************************)
C4_ResolveIdempotent ==
    AllAuthentic =>
        \A a, b \in Invocations :
            (Resolved(a) /\ Resolved(b)
                /\ calls[a].payload.issue.key = calls[b].payload.issue.key)
              => calls[a].internalId = calls[b].internalId

(***************************************************************************)
(* C5.  Two syncIssue calls that are in flight at the same time for the    *)
(* same issue key, which no earlier call has resolved, hold one internal   *)
(* id between them.                                                        *)
(***************************************************************************)
InSyncIssue(c) == calls[c].pc \in {"awaitResolve", "awaitPersist"}

FirstContact(a, b) ==
    \A c \in Invocations \ {a, b} :
        Resolved(c) =>
            calls[c].payload.issue.key # calls[a].payload.issue.key

C5_ConcurrentResolveOneMapping ==
    AllAuthentic =>
        \A a, b \in Invocations :
            (a # b /\ InSyncIssue(a) /\ InSyncIssue(b)
                /\ calls[a].payload.issue.key = calls[b].payload.issue.key
                /\ FirstContact(a, b))
              => Cardinality({calls[a].internalId, calls[b].internalId}) = 1

(***************************************************************************)
(* C6.  Retries are bounded by the configured ceiling: once the sync of an *)
(* event has failed MaxAttempts times, its retry task is dead, so no       *)
(* closure that would sync it again is left on the retry queue.            *)
(***************************************************************************)
\* the configured attempt ceiling of the scenario
MaxAttempts == 3

\* the failed syncIssue attempts for a payload
Failures(p) ==
    { c \in Invocations :
        calls[c].payload = p /\ calls[c].result = "RETRY_QUEUED" }

Queued(p) == \E i \in 1..Len(retryQueue) : retryQueue[i] = p

C6_RetriesBounded ==
    AllAuthentic =>
        \A p \in JiraNoFieldsBodies :
            Cardinality(Failures(p)) >= MaxAttempts => ~Queued(p)

(***************************************************************************)
(* C7.  UNKNOWN never overwrites a known status: when a sync wrote         *)
(* BACKLOG, ACTIVE or RELEASED for an entity (an issue key and its         *)
(* internal id), no later sync of that entity writes UNKNOWN.              *)
(***************************************************************************)
SameEntity(a, b) ==
    /\ calls[a].payload.issue.key = calls[b].payload.issue.key
    /\ calls[a].internalId = calls[b].internalId

C7_UnknownNeverOverwritesKnown ==
    AllAuthentic =>
        \A a, b \in Invocations :
            (/\ calls[a].wrote > 0
             /\ calls[b].wrote > calls[a].wrote
             /\ SameEntity(a, b)
             /\ calls[a].normalizedStatus \in KnownStatuses)
              => dbLog[calls[b].wrote].status # "UNKNOWN"

(***************************************************************************)
(* C8.  Reprocessing one event converges: while every successful sync so   *)
(* far was of the same payload, the persisted state holds one entity, as   *)
(* it did after the first success.                                         *)
(***************************************************************************)
\* the persisted state: the last status written for each entity id
PersistedEntities == { dbLog[i].id : i \in 1..Len(dbLog) }

PersistedStatus(id) ==
    LET last == CHOOSE i \in 1..Len(dbLog) :
                    /\ dbLog[i].id = id
                    /\ \A j \in (i + 1)..Len(dbLog) : dbLog[j].id # id
    IN  dbLog[last].status

PersistedState == { <<id, PersistedStatus(id)>> : id \in PersistedEntities }

\* the invocations whose syncIssue call has written
Persisted == { c \in Invocations : calls[c].nPersist > 0 }

C8_ReprocessingConverges ==
    AllAuthentic =>
        \A p \in JiraIssueBodies :
            (Persisted # {} /\ \A c \in Persisted : calls[c].payload = p) =>
                Cardinality(PersistedState) = 1

(***************************************************************************)
(* C9.  A verified delivery of an event kind with no defined handling      *)
(* ("jira:issue_deleted" on the Jira intake, a kind other than             *)
(* pull_request and push on the GitHub intake) writes nothing, enqueues no *)
(* retry, and is answered with an accepted-style outcome.                  *)
(***************************************************************************)
Unrouted(c) ==
    \/ calls[c].intake = "jira"
         /\ calls[c].payload.webhookEvent = "jira:issue_deleted"
    \/ calls[c].intake = "github"
         /\ calls[c].eventType \notin {"pull_request", "push"}

C9_UnroutedIsNoOp ==
    AllAuthentic =>
        \A c \in Calls :
            (Processed(c) /\ Unrouted(c)) =>
                /\ NoWriteNoEnqueue(c)
                /\ Finished(c) =>
                        calls[c].response \in {"200", "202", "ACCEPTED"}

(***************************************************************************)
(* C10.  For every status label that is not a key of the table,            *)
(* mapJiraStatusToInternal returns UNKNOWN.                                *)
(***************************************************************************)
C10_UnmappedLabelIsUnknown ==
    AllAuthentic =>
        \A c \in Invocations :
            (calls[c].normalizedStatus # Undefined
                /\ calls[c].payload.issue.fields.status.name
                        \notin {"To Do", "In Progress", "Done", "Closed"})
              => calls[c].normalizedStatus = "UNKNOWN"

(***************************************************************************)
(* C11.  A label of the mapping table is normalized to the table's         *)
(* canonical status ('To Do' to BACKLOG, 'In Progress' to ACTIVE, 'Done'   *)
(* and 'Closed' to RELEASED), the sync writes that status for the entity   *)
(* it resolved, and once the sync has returned SUCCESS that status is the  *)
(* persisted status of the entity unless a later write replaced it.        *)
(***************************************************************************)
CanonicalStatus(label) ==
    CASE label = "To Do" -> "BACKLOG"
      [] label = "In Progress" -> "ACTIVE"
      [] label = "Done" -> "RELEASED"
      [] label = "Closed" -> "RELEASED"

\* the label of an invocation that got as far as normalizing it
Label(c) == calls[c].payload.issue.fields.status.name

\* no line after the invocation's own was written for its entity
NotOverwritten(c) ==
    \A j \in (calls[c].wrote + 1)..Len(dbLog) :
        dbLog[j].id # calls[c].internalId

C11_MappedLabelPersisted ==
    \A c \in Invocations :
        (calls[c].wrote > 0
            /\ Label(c) \in {"To Do", "In Progress", "Done", "Closed"})
          => /\ calls[c].normalizedStatus = CanonicalStatus(Label(c))
             /\ dbLog[calls[c].wrote] =
                    [id |-> calls[c].internalId,
                     status |-> CanonicalStatus(Label(c))]
             /\ (calls[c].result = "SUCCESS" /\ NotOverwritten(c)) =>
                    PersistedStatus(calls[c].internalId) =
                        CanonicalStatus(Label(c))

\* an "In Progress" event was synced and ACTIVE is persisted for its
\* entity, and a 'Closed' event was synced too
C11_Witness ==
    /\ \E c \in Invocations :
          /\ calls[c].result = "SUCCESS"
          /\ Label(c) = "In Progress"
          /\ PersistedStatus(calls[c].internalId) = "ACTIVE"
    /\ \E c \in Invocations :
          calls[c].result = "SUCCESS" /\ Label(c) = "Closed"

(***************************************************************************)
(* C12.  Every verified delivery ends in one caller-visible outcome out of *)
(* accepted, unauthorized and accepted-for-retry, never in an exception:   *)
(* on the Jira intake the answer is 200 exactly when the sync returned     *)
(* SUCCESS, 202 exactly when it returned RETRY_QUEUED and 401 exactly when *)
(* the signature is invalid.                                               *)
(***************************************************************************)
C12_OneOutcomeNeverAnException ==
    AllAuthentic =>
        \A c \in Calls :
            Finished(c) =>
                /\ calls[c].response \in
                        {"200", "202", "401", "ACCEPTED", "UNAUTHORIZED"}
                /\ calls[c].intake = "jira" =>
                      /\ calls[c].response = "200"
                            <=> calls[c].result = "SUCCESS"
                      /\ calls[c].response = "202"
                            <=> calls[c].result = "RETRY_QUEUED"
                      /\ calls[c].response = "401"
                            <=> ~isValidSignature(calls[c].sig)

(***************************************************************************)
(* C13.  On both platforms a failure while processing a verified event is  *)
(* retried: the event is handed to the retry queue by the failed call and  *)
(* the delivery is answered with an accepted-style outcome; the failure    *)
(* does not reach the webhook caller.                                      *)
(***************************************************************************)
\* a step of processing the delivery's event failed: a step inside the
\* try block of syncIssue, or a step of trackPullRequest
ProcessingFailed(c) ==
    \/ calls[c].result = "RETRY_QUEUED"
    \/ calls[c].intake = "github" /\ calls[c].result = "THROWN"

C13_FailuresAlwaysRetried ==
    AllAuthentic =>
        \A c \in Calls :
            (Processed(c) /\ Finished(c) /\ ProcessingFailed(c))
              => /\ calls[c].nEnqueue = 1
                 /\ calls[c].queued = calls[c].payload
                 /\ calls[c].response \in {"202", "ACCEPTED"}

(***************************************************************************)
(* C14.  For a pull request created at T0 and merged at T1 >= T0, the      *)
(* timeToMergeHours that trackPullRequest persists and returns is T1 - T0  *)
(* in hours rounded to two decimal places; five and a half hours give 5.5. *)
(***************************************************************************)
\* the metadata the invocation persisted, which is the object it returns
SavedMetadata(c) == prLog[calls[c].saved]

\* h hundredths of an hour is the elapsed time of m minutes to the nearest
\* hundredth: |h / 100 - m / 60| <= 0.005
NearestHundredth(h, m) ==
    /\ 60 * h - 100 * m <= 30
    /\ 100 * m - 60 * h <= 30

C14_TimeToMergeRounded ==
    \A c \in Calls :
        (calls[c].saved > 0
            /\ SavedMetadata(c).mergedAt >= SavedMetadata(c).createdAt)
          => /\ NearestHundredth(SavedMetadata(c).timeToMergeHours,
                    SavedMetadata(c).mergedAt - SavedMetadata(c).createdAt)
             /\ SavedMetadata(c).mergedAt - SavedMetadata(c).createdAt = 330
                    => SavedMetadata(c).timeToMergeHours = 550

\* a pull request merged five and a half hours after its creation was
\* tracked to the end with 5.50 hours, and one merged seven minutes after
\* its creation with 0.12 hours
C14_Witness ==
    /\ \E c \in Calls :
          /\ calls[c].result = "metadata"
          /\ "merged_at" \in DOMAIN calls[c].payload.pull_request
          /\ calls[c].payload.pull_request.merged_at
                = calls[c].payload.pull_request.created_at + 330
          /\ SavedMetadata(c).timeToMergeHours = 550
    /\ \E c \in Calls :
          /\ calls[c].result = "metadata"
          /\ "merged_at" \in DOMAIN calls[c].payload.pull_request
          /\ calls[c].payload.pull_request.merged_at
                = calls[c].payload.pull_request.created_at + 7
          /\ SavedMetadata(c).timeToMergeHours = 12

(***************************************************************************)
(* C15.  The retry queue holds at most one task per failed event (a        *)
(* repeated failure updates the existing task rather than adding another), *)
(* and no task for an event whose latest sync attempt succeeded.           *)
(***************************************************************************)
\* the positions of retryQueue that hold a task for payload p
TasksFor(p) == { i \in 1..Len(retryQueue) : retryQueue[i] = p }

\* the sync attempts for payload p succeeded: one returned SUCCESS and none
\* took the catch block
LatestAttemptSucceeded(p) ==
    /\ \E c \in Invocations :
          calls[c].payload = p /\ calls[c].result = "SUCCESS"
    /\ Failures(p) = {}

C15_OneTaskPerFailedEvent ==
    AllAuthentic =>
        \A p \in JiraBodies :
            /\ Cardinality(TasksFor(p)) <= 1
            /\ LatestAttemptSucceeded(p) => TasksFor(p) = {}

(***************************************************************************)
(* C16.  A retry task's attempt count strictly increases with each failed  *)
(* attempt (and its backoff delay with it, up to the ceiling) until the    *)
(* task succeeds or is dead: the task left by a failed re-invocation       *)
(* never carries the attempt count of the task left by another failed      *)
(* attempt for the same event.                                             *)
(***************************************************************************)
\* the attempt count a queued closure carries (none: 0)
TaskAttempts(task) ==
    IF "attempts" \in DOMAIN task THEN task.attempts ELSE 0

\* a and b are two failed attempts for the same event
BothFailed(a, b) ==
    /\ a # b
    /\ calls[a].result = "RETRY_QUEUED"
    /\ calls[b].result = "RETRY_QUEUED"
    /\ calls[a].payload = calls[b].payload

C16_AttemptCountIncreases ==
    AllAuthentic =>
        \A a \in Invocations : \A b \in RetryRuns :
            BothFailed(a, b) =>
                TaskAttempts(calls[b].queued) # TaskAttempts(calls[a].queued)

(***************************************************************************)
(* C17.  Events for the same issue key are serialized: while one           *)
(* syncIssue call for a key is between its resolve step and the end of its *)
(* persist step, no other syncIssue call for that key is.                  *)
(***************************************************************************)
SameKey(a, b) ==
    calls[a].payload.issue.key = calls[b].payload.issue.key

C17_SameKeySerialized ==
    AllAuthentic =>
        \A a, b \in Invocations :
            (a # b /\ InSyncIssue(a) /\ InSyncIssue(b)) => ~SameKey(a, b)

(***************************************************************************)
(* C18.  On the GitHub intake a verified delivery is routed by its event   *)
(* kind alone: 'pull_request' invokes trackPullRequest exactly once and    *)
(* nothing else, 'push' invokes monitorCommits exactly once and nothing    *)
(* else, any other kind invokes neither; when the invoked handler has      *)
(* completed the returned status is ACCEPTED.                              *)
(***************************************************************************)
\* the service calls the delivery has made: trackPullRequest,
\* monitorCommits, syncIssue
Routed(c) == <<calls[c].nTrack, calls[c].nMonitor, calls[c].nSync>>

\* the service call of the delivery returned
HandlerCompleted(c) == calls[c].result \in {"null", "metadata", "void"}

C18_RoutedByEventKind ==
    \A c \in Calls :
        (calls[c].intake = "github" /\ Processed(c)) =>
            /\ Routed(c) =
                    CASE calls[c].eventType = "pull_request" -> <<1, 0, 0>>
                      [] calls[c].eventType = "push" -> <<0, 1, 0>>
                      [] OTHER -> <<0, 0, 0>>
            /\ (Finished(c) /\ (HandlerCompleted(c) \/ Unrouted(c)))
                    => calls[c].response = "ACCEPTED"
            /\ calls[c].response \in {"none", "ACCEPTED", "TypeError"}
            /\ calls[c].response = "TypeError" => calls[c].result = "THROWN"

\* a pull_request delivery and a push delivery were both routed and
\* answered ACCEPTED
C18_Witness ==
    /\ \E c \in Calls :
          /\ calls[c].intake = "github" /\ Finished(c)
          /\ calls[c].eventType = "pull_request"
          /\ calls[c].result = "metadata"
          /\ calls[c].response = "ACCEPTED"
    /\ \E c \in Calls :
          /\ calls[c].intake = "github" /\ Finished(c)
          /\ calls[c].eventType = "push"
          /\ calls[c].nMonitor = 1
          /\ calls[c].response = "ACCEPTED"

(***************************************************************************)
(* C19.  trackPullRequest on a payload without a pull_request object       *)
(* returns null, fetching no review cycles and persisting no metadata; on  *)
(* a payload with an unmerged pull request (no merged_at) it persists      *)
(* metadata exactly once, with timeToMergeHours = 0.                       *)
(***************************************************************************)
\* the invocation called trackPullRequest
Tracked(c) == calls[c].nTrack > 0

\* trackPullRequest has returned to the invocation
TrackReturned(c) == calls[c].pc \in {"awaitRoute", "done"}

C19_NullOrUnmergedZero ==
    \A c \in Calls :
        Tracked(c) =>
            /\ calls[c].payload \in GithubNoPrBodies =>
                  /\ TrackReturned(c) /\ calls[c].result = "null"
                  /\ calls[c].nFetch = 0
                  /\ calls[c].nSave = 0 /\ calls[c].saved = 0
            /\ calls[c].payload \in GithubOpenBodies =>
                  /\ calls[c].result \in {"none", "metadata"}
                  /\ calls[c].nSave <= 1
                  /\ TrackReturned(c) =>
                        /\ calls[c].result = "metadata"
                        /\ calls[c].nSave = 1
                        /\ SavedMetadata(c).timeToMergeHours = 0

\* trackPullRequest has returned null for a payload without a pull request
\* and has returned the metadata of an unmerged pull request
C19_Witness ==
    /\ \E c \in Calls :
          /\ Tracked(c) /\ calls[c].payload \in GithubNoPrBodies
          /\ calls[c].result = "null"
    /\ \E c \in Calls :
          /\ Tracked(c) /\ calls[c].payload \in GithubOpenBodies
          /\ calls[c].result = "metadata"
          /\ SavedMetadata(c).timeToMergeHours = 0

=============================================================================
